---------------------------- MODULE Spec2Model ----------------------------
(***************************************************************************)
(* Model of blueplug (src/src/main.rs): a pipeline that turns Bluetooth    *)
(* scan events into device readings published on an MQTT bus.              *)
(*                                                                         *)
(*   bt_stream              the Normalizer: raw CentralEvents to           *)
(*                          DeviceEvents, through the device_names cache   *)
(*   device_reading_stream  the Reading Projector: DeviceEvents to         *)
(*                          DeviceReadings, through the two decoders       *)
(*   main's spawned task    the publisher loop                             *)
(*                                                                         *)
(* Floating point values are kept as integers counting 1/ValueScale, so    *)
(* that 19.16 is 191600; every division of the code is exact at this scale.*)
(***************************************************************************)
EXTENDS Integers, Sequences, FiniteSets, TLC

(***************************************************************************)
(* Bounds of the model.                                                    *)
(***************************************************************************)
\* number of raw events taken from the upstream source in one run
MaxEvents == 3

(***************************************************************************)
(* Option<T> and Result<T, E>.                                             *)
(***************************************************************************)
None == [some |-> FALSE]

Some(x) == [some |-> TRUE, val |-> x]

IsSome(o) == o.some

Ok(x) == [ok |-> TRUE, val |-> x]

Err(e) == [ok |-> FALSE, err |-> e]

\* the elements of a sequence
Range(s) == {s[i] : i \in 1..Len(s)}

(***************************************************************************)
(* PeripheralId and Uuid::try_parse_ascii.  A PeripheralId is opaque; its  *)
(* Display form is a UUID on macOS and a BlueZ object path on Linux.  Text *)
(* is a sequence of one-character strings.                                 *)
(***************************************************************************)
PeripheralIds == {"macA", "macB", "linC"}

PeripheralId_to_string(id) ==
    CASE id = "macA" ->
           <<"6","e","4","0","0","0","0","1","-","b","5","a","3","-","f","3","9","3","-",
             "e","0","a","9","-","e","5","0","e","2","4","d","c","c","a","9","e">>
      [] id = "macB" ->
           <<"a","1","b","2","c","3","d","4","-","0","0","0","0","-","1","0","0","0","-",
             "8","0","0","0","-","0","0","8","0","5","f","9","b","3","4","f","b">>
      [] id = "linC" ->
           <<"h","c","i","0","/","d","e","v","_","E","4","_","5","F","_","0","1","_",
             "0","A","_","0","B","_","0","C">>

HexLower == {"0","1","2","3","4","5","6","7","8","9","a","b","c","d","e","f"}

HexUpper == {"A","B","C","D","E","F"}

ToLowerHex(c) ==
    CASE c = "A" -> "a" [] c = "B" -> "b" [] c = "C" -> "c"
      [] c = "D" -> "d" [] c = "E" -> "e" [] c = "F" -> "f"
      [] OTHER -> c

IsHex(c) == c \in HexLower \cup HexUpper

UrnPrefix == <<"u","r","n",":","u","u","i","d",":">>

HyphenAt == {9, 14, 19, 24}

\* the 32 hex digits of a hyphenated UUID text, or <<>> when it is not one
HyphenatedDigits(t) ==
    IF /\ Len(t) = 36
       /\ \A i \in 1..36 : IF i \in HyphenAt THEN t[i] = "-" ELSE IsHex(t[i])
    THEN SelectSeq(t, IsHex)
    ELSE <<>>

\* the 32 hex digits a UUID text holds in any of the four accepted forms
\* (simple, hyphenated, braced, urn), or <<>>
UuidDigits(t) ==
    CASE Len(t) = 32 -> IF \A i \in 1..32 : IsHex(t[i]) THEN t ELSE <<>>
      [] Len(t) = 36 -> HyphenatedDigits(t)
      [] Len(t) = 38 -> IF t[1] = "{" /\ t[38] = "}"
                        THEN HyphenatedDigits(SubSeq(t, 2, 37)) ELSE <<>>
      [] Len(t) = 45 -> IF SubSeq(t, 1, 9) = UrnPrefix
                        THEN HyphenatedDigits(SubSeq(t, 10, 45)) ELSE <<>>
      [] OTHER -> <<>>

\* Uuid::try_parse_ascii: a Uuid is its 32 lower-case hex digits
try_parse_ascii(t) ==
    LET d == UuidDigits(t)
    IN  IF Len(d) = 32
        THEN Ok([i \in 1..32 |-> ToLowerHex(d[i])])
        ELSE Err("invalid uuid")

(***************************************************************************)
(* Measurement.                                                            *)
(***************************************************************************)
ValueScale == 10000

Humidity(v) == [tag |-> "Humidity", value |-> v]

Temperature(v) == [tag |-> "Temperature", value |-> v]

Battery(v) == [tag |-> "Battery", value |-> v]

Voltage(v) == [tag |-> "Voltage", value |-> v]

\* Measurement::kind
kind(m) ==
    CASE m.tag = "Humidity" -> "humidity"
      [] m.tag = "Temperature" -> "temperature"
      [] m.tag = "Battery" -> "battery"
      [] m.tag = "Voltage" -> "voltage"

\* an integer n as f64 divided by d, at ValueScale; d is a power of ten
\* that divides ValueScale, so the quotient is exact
DivF64(n, d) == n * (ValueScale \div d)

\* an integer n as f64
AsF64(n) == n * ValueScale


(***************************************************************************)
(* The fixed-layout decoder: ruuvi_sensor_protocol's                       *)
(* SensorValues::from_manufacturer_specific_data, as called by             *)
(* measurements_from_manufacturer_data.  Bytes are 0..255.                 *)
(***************************************************************************)
RUUVI_MANUFACTURER_ID == 1177

U16BE(hi, lo) == hi * 256 + lo

I16BE(hi, lo) == IF hi >= 128 THEN U16BE(hi, lo) - 65536 ELSE U16BE(hi, lo)

\* data format 3 (RAWv1), 14 bytes: humidity in 0.5 %, temperature as
\* sign/integer and hundredths, pressure, acceleration, battery in mV
ParseFormat3(data) ==
    IF Len(data) # 14 THEN Err("InvalidValueLength")
    ELSE Ok([humidity    |-> Some(data[2] * 5000),
             temperature |-> Some((IF data[3] >= 128 THEN -1 ELSE 1)
                                  * ((data[3] % 128) * 1000 + data[4] * 10)),
             battery     |-> Some(U16BE(data[13], data[14]))])

\* data format 5 (RAWv2), 24 bytes: temperature in 0.005 C, humidity in
\* 0.0025 %, pressure, acceleration, power info (11 bits of mV above 1600),
\* counters and MAC; the all-ones patterns mean "not available"
ParseFormat5(data) ==
    IF Len(data) # 24 THEN Err("InvalidValueLength")
    ELSE Ok([humidity    |-> IF U16BE(data[4], data[5]) = 65535 THEN None
                             ELSE Some(U16BE(data[4], data[5]) * 25),
             temperature |-> IF I16BE(data[2], data[3]) = -32768 THEN None
                             ELSE Some(I16BE(data[2], data[3]) * 5),
             battery     |-> IF U16BE(data[14], data[15]) \div 32 = 2047 THEN None
                             ELSE Some(U16BE(data[14], data[15]) \div 32 + 1600)])

\* a parser that looks at the bytes only and accepts them under every vendor id
from_manufacturer_specific_data_AnyVendor(id, data) ==
    CASE Len(data) = 0 -> Err("EmptyValue")
      [] Len(data) > 0 /\ data[1] = 3 -> ParseFormat3(data)
      [] Len(data) > 0 /\ data[1] = 5 -> ParseFormat5(data)
      [] OTHER -> Err("UnsupportedFormatVersion")

from_manufacturer_specific_data(id, data) ==
    CASE id # RUUVI_MANUFACTURER_ID -> Err("UnknownManufacturerId")
      [] id = RUUVI_MANUFACTURER_ID /\ Len(data) = 0 -> Err("EmptyValue")
      [] id = RUUVI_MANUFACTURER_ID /\ Len(data) > 0 /\ data[1] = 3 -> ParseFormat3(data)
      [] id = RUUVI_MANUFACTURER_ID /\ Len(data) > 0 /\ data[1] = 5 -> ParseFormat5(data)
      [] OTHER -> Err("UnsupportedFormatVersion")

\* a closure that divides the humidity by 1000, as it does the other two fields
VendorMeasurements_HumidityPerMille(id, data) ==
    LET parsed == from_manufacturer_specific_data(id, data)
    IN  IF parsed.ok
        THEN (IF IsSome(parsed.val.humidity)
              THEN <<Humidity(DivF64(parsed.val.humidity.val, 1000))>> ELSE <<>>)
             \o (IF IsSome(parsed.val.temperature)
                 THEN <<Temperature(DivF64(parsed.val.temperature.val, 1000))>> ELSE <<>>)
             \o (IF IsSome(parsed.val.battery)
                 THEN <<Voltage(DivF64(parsed.val.battery.val, 1000))>> ELSE <<>>)
        ELSE <<>>

\* a closure that reports the battery potential under the Battery tag
VendorMeasurements_BatteryTag(id, data) ==
    LET parsed == from_manufacturer_specific_data(id, data)
    IN  IF parsed.ok
        THEN (IF IsSome(parsed.val.humidity)
              THEN <<Humidity(DivF64(parsed.val.humidity.val, 10000))>> ELSE <<>>)
             \o (IF IsSome(parsed.val.temperature)
                 THEN <<Temperature(DivF64(parsed.val.temperature.val, 1000))>> ELSE <<>>)
             \o (IF IsSome(parsed.val.battery)
                 THEN <<Battery(DivF64(parsed.val.battery.val, 1000))>> ELSE <<>>)
        ELSE <<>>

\* the closure of the flat_map: the measurements of one (vendor id, bytes) entry
VendorMeasurements(id, data) ==
    LET parsed == from_manufacturer_specific_data(id, data)
    IN  IF parsed.ok
        THEN (IF IsSome(parsed.val.humidity)
              THEN <<Humidity(DivF64(parsed.val.humidity.val, 10000))>> ELSE <<>>)
             \o (IF IsSome(parsed.val.temperature)
                 THEN <<Temperature(DivF64(parsed.val.temperature.val, 1000))>> ELSE <<>>)
             \o (IF IsSome(parsed.val.battery)
                 THEN <<Voltage(DivF64(parsed.val.battery.val, 1000))>> ELSE <<>>)
        ELSE <<>>

\* the iteration orders of a HashMap: every arrangement of its keys
IterOrders(map) ==
    {o \in [1..Cardinality(DOMAIN map) -> DOMAIN map] :
        \A i, j \in DOMAIN o : i # j => o[i] # o[j]}

\* an iteration that ends at the first entry that does not parse
RECURSIVE FlatMapVendors_StopAtFailure(_, _)
FlatMapVendors_StopAtFailure(map, order) ==
    IF order = <<>> THEN <<>>
    ELSE IF ~from_manufacturer_specific_data(Head(order), map[Head(order)]).ok THEN <<>>
    ELSE VendorMeasurements(Head(order), map[Head(order)])
         \o FlatMapVendors_StopAtFailure(map, Tail(order))

RECURSIVE FlatMapVendors(_, _)
FlatMapVendors(map, order) ==
    IF order = <<>> THEN <<>>
    ELSE VendorMeasurements(Head(order), map[Head(order)])
         \o FlatMapVendors(map, Tail(order))

\* measurements_from_manufacturer_data, iterating the map in the given order
measurements_from_manufacturer_data(manufacturer_data, order) ==
    FlatMapVendors(manufacturer_data, order)

(***************************************************************************)
(* The structured decoder: btsensor's Reading::decode for the BTHome v2    *)
(* envelope, as called by measurements_from_service_data.  Multi-byte      *)
(* values are little-endian.                                               *)
(***************************************************************************)
BTHOME_V2_UUID == "0000fcd2-0000-1000-8000-00805f9b34fb"

ObjectIds == {0, 1, 2, 3, 12, 16, 21, 46, 69}

\* object id -> name, length in bytes, signedness, decimal places, class
Property(id) ==
    CASE id = 0  -> [name |-> "packet id",   len |-> 1, signed |-> FALSE, decimal_point |-> 0, class |-> "Sensor"]
      [] id = 1  -> [name |-> "battery",     len |-> 1, signed |-> FALSE, decimal_point |-> 0, class |-> "Sensor"]
      [] id = 2  -> [name |-> "temperature", len |-> 2, signed |-> TRUE,  decimal_point |-> 2, class |-> "Sensor"]
      [] id = 3  -> [name |-> "humidity",    len |-> 2, signed |-> FALSE, decimal_point |-> 2, class |-> "Sensor"]
      [] id = 12 -> [name |-> "voltage",     len |-> 2, signed |-> FALSE, decimal_point |-> 3, class |-> "Sensor"]
      [] id = 16 -> [name |-> "power",       len |-> 1, signed |-> FALSE, decimal_point |-> 0, class |-> "BinarySensor"]
      [] id = 21 -> [name |-> "battery",     len |-> 1, signed |-> FALSE, decimal_point |-> 0, class |-> "BinarySensor"]
      [] id = 46 -> [name |-> "humidity",    len |-> 1, signed |-> FALSE, decimal_point |-> 0, class |-> "Sensor"]
      [] id = 69 -> [name |-> "temperature", len |-> 2, signed |-> TRUE,  decimal_point |-> 1, class |-> "Sensor"]

RECURSIVE Pow10(_)
Pow10(n) == IF n = 0 THEN 1 ELSE 10 * Pow10(n - 1)

\* the bytes read most significant first
RECURSIVE UnsignedLE_BigEndian(_)
UnsignedLE_BigEndian(bytes) ==
    IF bytes = <<>> THEN 0
    ELSE bytes[Len(bytes)] + 256 * UnsignedLE_BigEndian(SubSeq(bytes, 1, Len(bytes) - 1))

RECURSIVE UnsignedLE(_)
UnsignedLE(bytes) ==
    IF bytes = <<>> THEN 0 ELSE Head(bytes) + 256 * UnsignedLE(Tail(bytes))

SignedLE(bytes) ==
    LET u == UnsignedLE(bytes)
        half == IF Len(bytes) = 1 THEN 128 ELSE 32768
    IN  IF u >= half THEN u - 2 * half ELSE u

\* the elements of an envelope body, or an error for an unknown object id
\* or a value cut short
RECURSIVE DecodeElements(_)
DecodeElements(bytes) ==
    IF bytes = <<>> THEN Ok(<<>>)
    ELSE IF Head(bytes) \notin ObjectIds THEN Err("unknown property")
    ELSE LET p == Property(Head(bytes))
         IN  IF Len(bytes) < 1 + p.len THEN Err("premature end of data")
             ELSE LET raw  == SubSeq(bytes, 2, 1 + p.len)
                      rest == DecodeElements(SubSeq(bytes, 2 + p.len, Len(bytes)))
                      e    == [name |-> p.name, class |-> p.class,
                               decimal_point |-> p.decimal_point,
                               value |-> IF p.signed THEN SignedLE(raw)
                                         ELSE UnsignedLE(raw)]
                  IN  IF rest.ok THEN Ok(<<e>> \o rest.val) ELSE rest

\* BtHomeV2::decode: the device-information byte carries the encryption
\* flag in bit 0 and the version in bits 5 to 7
BtHomeV2_decode(bytes) ==
    IF bytes = <<>> THEN Err("premature end of data")
    ELSE IF bytes[1] \div 32 # 2 THEN Err("unsupported version")
    ELSE IF bytes[1] % 2 = 1 THEN Err("unsupported encryption")
    ELSE DecodeElements(Tail(bytes))

ATC_UUID == "0000181a-0000-1000-8000-00805f9b34fb"

BTHOME_V1_UUID == "0000181c-0000-1000-8000-00805f9b34fb"

\* atc::SensorReading::decode: MAC, temperature, humidity, battery percent,
\* battery millivolts and a counter in 13 bytes; main.rs reads none of them
Atc_decode(bytes) == IF Len(bytes) = 13 THEN Ok("Atc") ELSE Err("wrong length")

\* BtHomeV1::decode: every element starts with a byte that holds its length
\* in bits 0 to 4, then the object id and the value; main.rs reads none of them
RECURSIVE BtHomeV1_decode(_)
BtHomeV1_decode(bytes) ==
    IF bytes = <<>> THEN Ok("BtHomeV1")
    ELSE IF (bytes[1] % 32) = 0 \/ Len(bytes) < 1 + (bytes[1] % 32)
         THEN Err("premature end of data")
         ELSE BtHomeV1_decode(SubSeq(bytes, 2 + (bytes[1] % 32), Len(bytes)))

\* Reading::decode: the format is chosen by the service UUID
Reading_decode(service_data) ==
    IF ATC_UUID \in DOMAIN service_data
    THEN (IF Atc_decode(service_data[ATC_UUID]).ok
          THEN Some([variant |-> "Atc", elements |-> <<>>]) ELSE None)
    ELSE IF BTHOME_V1_UUID \in DOMAIN service_data
    THEN (IF BtHomeV1_decode(service_data[BTHOME_V1_UUID]).ok
          THEN Some([variant |-> "BtHomeV1", elements |-> <<>>]) ELSE None)
    ELSE IF BTHOME_V2_UUID \in DOMAIN service_data
    THEN LET r == BtHomeV2_decode(service_data[BTHOME_V2_UUID])
         IN  IF r.ok THEN Some([variant |-> "BtHomeV2", elements |-> r.val])
             ELSE None
    ELSE None

\* Element::value_float: the scaled value of a sensor element
value_float(e) ==
    IF e.class = "Sensor" THEN Some(DivF64(e.value, Pow10(e.decimal_point)))
    ELSE None

\* Element::value_int: the value of a sensor element without decimals
value_int(e) ==
    IF e.class = "Sensor" /\ e.decimal_point = 0 THEN Some(e.value)
    ELSE None

unwrap_or(o, d) == IF IsSome(o) THEN o.val ELSE d

\* a closure that drops an element whose value has not the type it asks for
ElementMeasurement_DropMistyped(e) ==
    CASE e.name = "humidity" /\ IsSome(value_float(e))    -> Some(Humidity(value_float(e).val))
      [] e.name = "temperature" /\ IsSome(value_float(e)) -> Some(Temperature(value_float(e).val))
      [] e.name = "battery" /\ IsSome(value_int(e))       -> Some(Battery(AsF64(value_int(e).val)))
      [] OTHER -> None

\* the closure of the filter_map
ElementMeasurement(e) ==
    CASE e.name = "humidity"    -> Some(Humidity(unwrap_or(value_float(e), 0)))
      [] e.name = "temperature" -> Some(Temperature(unwrap_or(value_float(e), 0)))
      [] e.name = "battery"     -> Some(Battery(AsF64(unwrap_or(value_int(e), 0))))
      [] OTHER -> None

RECURSIVE FilterMapElements(_)
FilterMapElements(elements) ==
    IF elements = <<>> THEN <<>>
    ELSE LET m == ElementMeasurement(Head(elements))
         IN  (IF IsSome(m) THEN <<m.val>> ELSE <<>>)
             \o FilterMapElements(Tail(elements))

\* a decoder that reports the two formats it does not read as a temperature
measurements_from_service_data_Placeholder(service_data) ==
    LET decoded == Reading_decode(service_data)
    IN  IF IsSome(decoded) /\ decoded.val.variant = "BtHomeV2"
        THEN FilterMapElements(decoded.val.elements)
        ELSE IF IsSome(decoded) THEN <<Temperature(0)>>
        ELSE <<>>

measurements_from_service_data(service_data) ==
    LET decoded == Reading_decode(service_data)
    IN  IF IsSome(decoded) /\ decoded.val.variant = "BtHomeV2"
        THEN FilterMapElements(decoded.val.elements)
        ELSE <<>>


(***************************************************************************)
(* The inputs of a run: what the scanning stack can deliver.               *)
(***************************************************************************)
Names == {"kitchen", "attic"}

\* the answers of central.peripheral(&id) and peripheral.properties()
Lookups ==
    {[kind |-> "PeripheralErr"], [kind |-> "PropertiesErr"], [kind |-> "NoProperties"]}
    \cup {[kind |-> "Properties", local_name |-> n] : n \in {None} \cup {Some(x) : x \in Names}}

\* the steps before the event loop that can fail
SetupOutcomes == {"ok", "No BT Adapter", "start_scan failed"}

\* the CentralEvent variants of the catch-all arm
OtherKinds == {"DeviceConnected", "DeviceDisconnected", "ServicesAdvertisement", "DeviceUpdated"}

\* the regression fixture of tests::test_measurements_from_service_data
FixtureBytes == <<64, 0, 126, 1, 100, 2, 124, 7, 3, 60, 15>>

SD_FIXTURE == (BTHOME_V2_UUID :> FixtureBytes)

\* a temperature element cut short
SD_TRUNCATED == (BTHOME_V2_UUID :> <<64, 2, 124>>)

\* the GATT battery service, which no decoder knows
SD_UNKNOWN == ("0000180f-0000-1000-8000-00805f9b34fb" :> <<100>>)

\* a BTHome v2 envelope with a binary sensor "power", the binary sensor
\* "battery" (battery low), a temperature of 19.16 C and a voltage of 3.3 V
SD_TYPED == (BTHOME_V2_UUID :> <<64, 16, 1, 21, 1, 2, 124, 7, 12, 228, 12>>)

\* an ATC1441 advertisement: 19.2 C, 39 %, battery 100 %, 3300 mV
SD_ATC == (ATC_UUID :> <<164, 193, 56, 1, 2, 3, 0, 192, 39, 100, 12, 228, 7>>)

\* a BTHome v1 advertisement: one signed 16-bit temperature element
SD_V1 == (BTHOME_V1_UUID :> <<35, 2, 124, 7>>)

ServiceDataSamples == {SD_FIXTURE, SD_TRUNCATED, SD_UNKNOWN, SD_TYPED, SD_ATC, SD_V1}

\* format 3: humidity 39.0 %, temperature 19.16 C, battery 3300 mV
Ruuvi3Bytes == <<3, 78, 19, 16, 195, 80, 0, 0, 0, 0, 0, 0, 12, 228>>

\* format 5: temperature 19.16 C, humidity not available, battery 3300 mV
Ruuvi5Bytes == <<5, 14, 248, 255, 255, 195, 80, 0, 0, 0, 0, 0, 0,
                 212, 132, 1, 0, 7, 1, 2, 3, 4, 5, 6>>

APPLE_MANUFACTURER_ID == 76

MD_RUUVI == (RUUVI_MANUFACTURER_ID :> Ruuvi3Bytes)

\* two co-broadcast entries; the second holds format-3 bytes under a vendor
\* id the decoder does not know
MD_MIXED == (RUUVI_MANUFACTURER_ID :> Ruuvi5Bytes) @@ (APPLE_MANUFACTURER_ID :> Ruuvi3Bytes)

\* a truncated entry and an unknown vendor
MD_BROKEN == (RUUVI_MANUFACTURER_ID :> <<3, 78, 19>>) @@ (APPLE_MANUFACTURER_ID :> <<2, 21>>)

ManufacturerDataSamples == {MD_RUUVI, MD_MIXED, MD_BROKEN}

Named(n) == [kind |-> "Properties", local_name |-> Some(n)]

\* the raw events of a run: every lookup answer and every payload for macA,
\* one named discovery and fewer payloads for the two other handles
DiscoverySamples ==
    {[id |-> "macA", lookup |-> l] : l \in Lookups}
    \cup {[id |-> "macB", lookup |-> Named("shed/north")],
          [id |-> "linC", lookup |-> Named("kitchen")]}

ServiceDataAdverts ==
    {[id |-> "macA", data |-> d] : d \in ServiceDataSamples}
    \cup {[id |-> "macB", data |-> SD_FIXTURE], [id |-> "linC", data |-> SD_FIXTURE]}

ManufacturerDataAdverts ==
    {[id |-> "macA", data |-> d] : d \in ManufacturerDataSamples}
    \cup {[id |-> "macB", data |-> MD_RUUVI]}

(***************************************************************************)
(* The state of the pipeline.                                              *)
(***************************************************************************)
VARIABLES
    bt_pc,          \* bt_stream: "setup", "scanning" or "ended"
    device_names,   \* bt_stream's HashMap<PeripheralId, DeviceId>
    slot,           \* the item bt_stream has yielded and the projector not yet taken
    drs_pc,         \* device_reading_stream: "await_event", "yielding" or "ended"
    cur,            \* the DeviceEvent whose measurements are being yielded
    measurements,   \* the Vec the decoder returned for cur
    next_idx,       \* the position of the for loop in measurements
    pub_pc,         \* the publisher loop: "await_reading", "publishing" or "ended"
    inflight,       \* the reading the publisher loop holds
    lastPublish,    \* the last call of client.publish, its outcome, the line printed
    consumed,       \* history: the raw events taken from the upstream source
    emitted,        \* history: the items bt_stream yielded
    readings        \* history: the readings device_reading_stream yielded

vars == <<bt_pc, device_names, slot, drs_pc, cur, measurements, next_idx,
          pub_pc, inflight, lastPublish, consumed, emitted, readings>>

Init ==
    /\ bt_pc = "setup"
    /\ device_names = [id \in PeripheralIds |-> None]
    /\ slot = None
    /\ drs_pc = "await_event"
    /\ cur = None
    /\ measurements = <<>>
    /\ next_idx = 1
    /\ pub_pc = "await_reading"
    /\ inflight = None
    /\ lastPublish = None
    /\ consumed = <<>>
    /\ emitted = <<>>
    /\ readings = <<>>

\* a source that runs ahead of the publisher, as behind a channel
Polled_Buffered == drs_pc = "await_event" /\ ~IsSome(slot)

\* the whole chain is pull-driven: bt_stream runs only while the publisher
\* loop awaits a reading and device_reading_stream awaits an event
Polled == pub_pc = "await_reading" /\ drs_pc = "await_event" /\ ~IsSome(slot)

\* a yield of bt_stream: item, caused by the raw event just consumed
Yield(item) ==
    /\ slot' = Some(item)
    /\ emitted' = Append(emitted, [raw |-> Len(consumed'), item |-> item])

\* an error that is yielded without ending the stream
Fail_Continue(e) ==
    /\ Yield(Err(e))
    /\ UNCHANGED bt_pc

\* the ? operator inside try_stream!: the error is yielded and the stream ends
Fail(e) ==
    /\ Yield(Err(e))
    /\ bt_pc' = "ended"

ProjectorUnchanged == UNCHANGED <<drs_pc, cur, measurements, next_idx, readings>>

PublisherUnchanged == UNCHANGED <<pub_pc, inflight, lastPublish>>

(***************************************************************************)
(* bt_stream                                                               *)
(***************************************************************************)
\* lines 101-106: the manager, the adapter, the event source, the scan
Setup(outcome) ==
    /\ bt_pc = "setup"
    /\ Polled
    /\ UNCHANGED <<device_names, consumed>>
    /\ IF outcome = "ok"
       THEN /\ bt_pc' = "scanning"
            /\ UNCHANGED <<slot, emitted>>
       ELSE Fail(outcome)
    /\ ProjectorUnchanged
    /\ PublisherUnchanged

TakeRaw(event) ==
    /\ bt_pc = "scanning"
    /\ Polled
    /\ Len(consumed) < MaxEvents
    /\ consumed' = Append(consumed, event)

\* an insert that forgets every other entry of the map
Insert_Fresh(id, device_id) ==
    [h \in PeripheralIds |-> IF h = id THEN Some(device_id) ELSE None]

\* an insert that keeps the entry a handle already has
Insert_KeepExisting(id, device_id) ==
    IF IsSome(device_names[id]) THEN device_names
    ELSE [device_names EXCEPT ![id] = Some(device_id)]

\* device_names.insert(id, device_id)
Insert(id, device_id) == [device_names EXCEPT ![id] = Some(device_id)]

\* a discovery without a name stored under the empty name
observe_discovery_DefaultName(id, local_name) ==
    LET parsed == try_parse_ascii(PeripheralId_to_string(id))
    IN  IF parsed.ok
        THEN Insert(id, [peripheral_id |-> parsed.val,
                         device_name |-> unwrap_or(local_name, "")])
        ELSE device_names

\* a stable id that is drawn anew at every discovery
observe_discovery_NewId(id, local_name) ==
    IF IsSome(local_name)
    THEN Insert(id, [peripheral_id |-> <<Len(consumed)>>, device_name |-> local_name.val])
    ELSE device_names

\* lines 113-124: the cache after a discovery whose properties were read
observe_discovery(id, local_name) ==
    IF IsSome(local_name)
    THEN LET parsed == try_parse_ascii(PeripheralId_to_string(id))
         IN  IF parsed.ok
             THEN Insert(id, [peripheral_id |-> parsed.val,
                              device_name |-> local_name.val])
             ELSE device_names
    ELSE device_names

\* a discovery under which the events and readings already yielded share
\* the cache entry of their handle instead of holding a copy of it
DeviceDiscovered_Aliased(id, lookup) ==
    /\ TakeRaw([type |-> "DeviceDiscovered", id |-> id, lookup |-> lookup])
    /\ CASE lookup.kind = "PeripheralErr" ->
              Fail("peripheral lookup failed") /\ UNCHANGED <<device_names, readings>>
         [] lookup.kind = "PropertiesErr" ->
              Fail("properties lookup failed") /\ UNCHANGED <<device_names, readings>>
         [] lookup.kind = "NoProperties" ->
              UNCHANGED <<device_names, bt_pc, slot, emitted, readings>>
         [] lookup.kind = "Properties" ->
              /\ device_names' = observe_discovery(id, lookup.local_name)
              /\ emitted' = [i \in DOMAIN emitted |->
                               IF /\ emitted[i].item.ok
                                  /\ Some(emitted[i].item.val.device_id) = device_names[id]
                               THEN [emitted[i] EXCEPT
                                        !.item.val.device_id = device_names'[id].val]
                               ELSE emitted[i]]
              /\ readings' = [k \in DOMAIN readings |->
                                IF Some(readings[k].reading.device_id) = device_names[id]
                                THEN [readings[k] EXCEPT
                                         !.reading.device_id = device_names'[id].val]
                                ELSE readings[k]]
              /\ UNCHANGED <<bt_pc, slot>>
    /\ UNCHANGED <<drs_pc, cur, measurements, next_idx>>
    /\ PublisherUnchanged

DeviceDiscovered(id, lookup) ==
    /\ TakeRaw([type |-> "DeviceDiscovered", id |-> id, lookup |-> lookup])
    /\ CASE lookup.kind = "PeripheralErr" ->
              Fail("peripheral lookup failed") /\ UNCHANGED device_names
         [] lookup.kind = "PropertiesErr" ->
              Fail("properties lookup failed") /\ UNCHANGED device_names
         [] lookup.kind = "NoProperties" ->
              UNCHANGED <<device_names, bt_pc, slot, emitted>>
         [] lookup.kind = "Properties" ->
              /\ device_names' = observe_discovery(id, lookup.local_name)
              /\ UNCHANGED <<bt_pc, slot, emitted>>
    /\ ProjectorUnchanged
    /\ PublisherUnchanged

\* a lookup that answers for every handle
get_Always(id) ==
    IF IsSome(device_names[id]) THEN device_names[id]
    ELSE Some([peripheral_id |-> <<>>, device_name |-> ""])

\* device_names.get(&id)
get(id) == device_names[id]

ServiceDataAdvertisement(id, service_data) ==
    /\ TakeRaw([type |-> "ServiceDataAdvertisement", id |-> id, data |-> service_data])
    /\ IF IsSome(get(id))
       THEN Yield(Ok([type |-> "ServiceDataAdvertisement",
                      device_id |-> get(id).val, data |-> service_data]))
       ELSE UNCHANGED <<slot, emitted>>
    /\ UNCHANGED <<bt_pc, device_names>>
    /\ ProjectorUnchanged
    /\ PublisherUnchanged

ManufacturerDataAdvertisement(id, manufacturer_data) ==
    /\ TakeRaw([type |-> "ManufacturerDataAdvertisement", id |-> id, data |-> manufacturer_data])
    /\ IF IsSome(get(id))
       THEN Yield(Ok([type |-> "ManufacturerDataAdvertisement",
                      device_id |-> get(id).val, data |-> manufacturer_data]))
       ELSE UNCHANGED <<slot, emitted>>
    /\ UNCHANGED <<bt_pc, device_names>>
    /\ ProjectorUnchanged
    /\ PublisherUnchanged

\* a catch-all arm that evicts the cache when a device disconnects
OtherEvent_Evicts(k) ==
    /\ TakeRaw([type |-> k])
    /\ device_names' = IF k = "DeviceDisconnected"
                       THEN [h \in PeripheralIds |-> None] ELSE device_names
    /\ UNCHANGED <<bt_pc, slot, emitted>>
    /\ ProjectorUnchanged
    /\ PublisherUnchanged

\* the catch-all arm
OtherEvent(k) ==
    /\ TakeRaw([type |-> k])
    /\ UNCHANGED <<bt_pc, device_names, slot, emitted>>
    /\ ProjectorUnchanged
    /\ PublisherUnchanged

\* the upstream event source ends: the for loop and the stream end
EventsEnd ==
    /\ bt_pc = "scanning"
    /\ Polled
    /\ bt_pc' = "ended"
    /\ UNCHANGED <<device_names, slot, consumed, emitted>>
    /\ ProjectorUnchanged
    /\ PublisherUnchanged

(***************************************************************************)
(* device_reading_stream                                                   *)
(***************************************************************************)
\* a loop that gives up at an event without measurements
StartYielding_EndOnEmpty(event, ms) ==
    /\ slot' = None
    /\ cur' = Some(event)
    /\ measurements' = ms
    /\ next_idx' = 1
    /\ drs_pc' = IF ms = <<>> THEN "ended" ELSE "yielding"
    /\ UNCHANGED <<bt_pc, device_names, consumed, emitted, readings>>
    /\ PublisherUnchanged

\* the for loop over the measurements of one event starts
StartYielding(event, ms) ==
    /\ slot' = None
    /\ cur' = Some(event)
    /\ measurements' = ms
    /\ next_idx' = 1
    /\ drs_pc' = IF ms = <<>> THEN "await_event" ELSE "yielding"
    /\ UNCHANGED <<bt_pc, device_names, consumed, emitted, readings>>
    /\ PublisherUnchanged

ProjectServiceData ==
    /\ drs_pc = "await_event"
    /\ IsSome(slot) /\ slot.val.ok
    /\ slot.val.val.type = "ServiceDataAdvertisement"
    /\ StartYielding(slot.val.val, measurements_from_service_data(slot.val.val.data))

ProjectManufacturerData ==
    /\ drs_pc = "await_event"
    /\ IsSome(slot) /\ slot.val.ok
    /\ slot.val.val.type = "ManufacturerDataAdvertisement"
    /\ \E order \in IterOrders(slot.val.val.data) :
          StartYielding(slot.val.val,
                        measurements_from_manufacturer_data(slot.val.val.data, order))

\* the Err arm: the error is printed and the loop goes on
ProjectError ==
    /\ drs_pc = "await_event"
    /\ IsSome(slot) /\ ~slot.val.ok
    /\ slot' = None
    /\ UNCHANGED <<bt_pc, device_names, consumed, emitted>>
    /\ ProjectorUnchanged
    /\ PublisherUnchanged

\* the yield of one DeviceReading to the publisher loop
\* a projector that walks the decoder's sequence from its end
YieldReading_Reversed ==
    /\ drs_pc = "yielding"
    /\ pub_pc = "await_reading"
    /\ LET reading == [device_id |-> cur.val.device_id,
                       measurement |-> measurements[Len(measurements) + 1 - next_idx]]
       IN  /\ inflight' = Some(reading)
           /\ readings' = Append(readings, [event |-> Len(emitted), reading |-> reading])
    /\ next_idx' = next_idx + 1
    /\ drs_pc' = IF next_idx = Len(measurements) THEN "await_event" ELSE "yielding"
    /\ pub_pc' = "publishing"
    /\ UNCHANGED <<bt_pc, device_names, slot, cur, measurements, lastPublish,
                   consumed, emitted>>

YieldReading ==
    /\ drs_pc = "yielding"
    /\ pub_pc = "await_reading"
    /\ LET reading == [device_id |-> cur.val.device_id,
                       measurement |-> measurements[next_idx]]
       IN  /\ inflight' = Some(reading)
           /\ readings' = Append(readings, [event |-> Len(emitted), reading |-> reading])
    /\ next_idx' = next_idx + 1
    /\ drs_pc' = IF next_idx = Len(measurements) THEN "await_event" ELSE "yielding"
    /\ pub_pc' = "publishing"
    /\ UNCHANGED <<bt_pc, device_names, slot, cur, measurements, lastPublish,
                   consumed, emitted>>

\* bt_stream has ended: device_reading_stream ends and the while let with it
StreamEnd ==
    /\ bt_pc = "ended"
    /\ Polled
    /\ drs_pc' = "ended"
    /\ pub_pc' = "ended"
    /\ UNCHANGED <<bt_pc, device_names, slot, cur, measurements, next_idx,
                   inflight, lastPublish, consumed, emitted, readings>>

(***************************************************************************)
(* the publisher loop of main                                              *)
(***************************************************************************)
\* a topic with the device name before the kind
Topic_NameFirst(reading) ==
    "device_reading/" \o reading.device_id.device_name \o "/" \o kind(reading.measurement)

Topic(reading) ==
    "device_reading/" \o kind(reading.measurement) \o "/" \o reading.device_id.device_name

PublishOutcomes == {"published", "publish failed"}

\* line 264: the only println of the loop, under is_ok()
Printed(outcome) == IF outcome = "published" THEN Some("published") ELSE None

Publish(outcome) ==
    /\ pub_pc = "publishing"
    /\ lastPublish' = Some([topic |-> Topic(inflight.val), reading |-> inflight.val,
                            outcome |-> outcome, printed |-> Printed(outcome)])
    /\ inflight' = None
    /\ pub_pc' = "await_reading"
    /\ UNCHANGED <<bt_pc, device_names, slot, consumed, emitted>>
    /\ ProjectorUnchanged

Next ==
    \/ \E outcome \in SetupOutcomes : Setup(outcome)
    \/ \E d \in DiscoverySamples : DeviceDiscovered(d.id, d.lookup)
    \/ \E a \in ServiceDataAdverts : ServiceDataAdvertisement(a.id, a.data)
    \/ \E a \in ManufacturerDataAdverts : ManufacturerDataAdvertisement(a.id, a.data)
    \/ \E k \in OtherKinds : OtherEvent(k)
    \/ EventsEnd
    \/ ProjectServiceData
    \/ ProjectManufacturerData
    \/ ProjectError
    \/ YieldReading
    \/ StreamEnd
    \/ \E outcome \in PublishOutcomes : Publish(outcome)

Spec == Init /\ [][Next]_vars

(***************************************************************************)
(* Reading the histories.                                                  *)
(***************************************************************************)
Last(s) == s[Len(s)]

Max(S) == CHOOSE x \in S : \A y \in S : y <= x

Min(S) == CHOOSE x \in S : \A y \in S : x <= y

AdvertTypes == {"ServiceDataAdvertisement", "ManufacturerDataAdvertisement"}

IsAdvert(r) == r.type \in AdvertTypes

IsDiscovery(r) == r.type = "DeviceDiscovered"

\* a discovery whose properties carry a local name
IsNamedDiscovery(r) ==
    /\ IsDiscovery(r)
    /\ r.lookup.kind = "Properties"
    /\ IsSome(r.lookup.local_name)

\* a discovery whose lookups succeed and carry no name
IsUnnamedDiscovery(r) ==
    /\ IsDiscovery(r)
    /\ \/ r.lookup.kind = "NoProperties"
       \/ r.lookup.kind = "Properties" /\ ~IsSome(r.lookup.local_name)

\* a discovery whose peripheral or properties lookup fails
IsFailedDiscovery(r) ==
    /\ IsDiscovery(r)
    /\ r.lookup.kind \in {"PeripheralErr", "PropertiesErr"}

\* the raw events before position j that are named discoveries of handle h
NamedBefore(h, j) ==
    {i \in 1..(j - 1) : IsNamedDiscovery(consumed[i]) /\ consumed[i].id = h}

\* the raw events before position j that are discoveries of handle h
DiscoveredBefore(h, j) ==
    {i \in 1..(j - 1) : IsDiscovery(consumed[i]) /\ consumed[i].id = h}

\* the name of the most recent named discovery of h before position j
LastNameBefore(h, j) == consumed[Max(NamedBefore(h, j))].lookup.local_name.val

\* the handles whose text is a UUID
ParsingIds == {h \in PeripheralIds : try_parse_ascii(PeripheralId_to_string(h)).ok}

\* the handle's text is a UUID
Parses(h) == h \in ParsingIds

\* the items bt_stream yielded for the raw event at position j
EmittedFor(j) == {i \in DOMAIN emitted : emitted[i].raw = j}

\* the step takes a raw event from the upstream source
Consumes == Len(consumed') = Len(consumed) + 1

\* the step makes bt_stream yield an item
Emits == Len(emitted') = Len(emitted) + 1

(***************************************************************************)
(* C1: bt_stream yields a DeviceEvent for an advertisement only if the     *)
(* cache holds an entry for the handle when the advertisement is taken,    *)
(* and the event carries that entry; a handle that no discovery event has  *)
(* named yields no DeviceEvent, and every reading stems from a DeviceEvent.*)
(***************************************************************************)
C1_EmitsOnlyResolved ==
    /\ [][(Emits /\ Last(emitted').item.ok) =>
             /\ Consumes
             /\ IsAdvert(Last(consumed'))
             /\ IsSome(device_names[Last(consumed').id])
             /\ Last(emitted').item.val.device_id = device_names[Last(consumed').id].val]_vars
    /\ [](\A i \in DOMAIN emitted : emitted[i].item.ok =>
             /\ IsAdvert(consumed[emitted[i].raw])
             /\ DiscoveredBefore(consumed[emitted[i].raw].id, emitted[i].raw) # {})
    /\ [](\A k \in DOMAIN readings :
             /\ readings[k].event \in DOMAIN emitted
             /\ emitted[readings[k].event].item.ok)

\* an advertisement of a handle never discovered was taken and dropped,
\* after another advertisement went through
C1_Witness ==
    \E j \in DOMAIN consumed :
        /\ IsAdvert(consumed[j])
        /\ DiscoveredBefore(consumed[j].id, j) = {}
        /\ EmittedFor(j) = {}
        /\ \E i \in DOMAIN emitted : emitted[i].item.ok /\ emitted[i].raw < j

C3_UnnamedDiscoveryNoop ==
    [][(Consumes /\ IsUnnamedDiscovery(Last(consumed'))) =>
          device_names' = device_names]_vars

\* an unnamed discovery was taken for a handle that has an entry
C3_Witness ==
    /\ Len(consumed) > 0
    /\ IsUnnamedDiscovery(Last(consumed))
    /\ IsSome(device_names[Last(consumed).id])

(***************************************************************************)
(* C4: a cache entry carries the name of the most recent named discovery   *)
(* of its handle, and an entry once made is never removed.                 *)
(***************************************************************************)
C4_LastWriteWinsNoEviction ==
    /\ [](\A h \in PeripheralIds : IsSome(device_names[h]) =>
             /\ NamedBefore(h, Len(consumed) + 1) # {}
             /\ device_names[h].val.device_name = LastNameBefore(h, Len(consumed) + 1))
    /\ [][\A h \in PeripheralIds :
             IsSome(device_names[h]) => IsSome(device_names'[h])]_vars

\* a handle was named twice, with two names, while another handle keeps its entry
C4_Witness ==
    \E h, g \in PeripheralIds :
        /\ h # g
        /\ IsSome(device_names[h])
        /\ IsSome(device_names[g])
        /\ \E i \in NamedBefore(h, Len(consumed) + 1) :
              consumed[i].lookup.local_name.val # device_names[h].val.device_name

(***************************************************************************)
(* C5, as stated: once the cache holds an identity for a handle, it holds  *)
(* that same identity (stable id and name) ever after.                     *)
(***************************************************************************)
C5_IdentityImmutable ==
    [][\A h \in PeripheralIds :
          IsSome(device_names[h]) => device_names'[h] = device_names[h]]_vars

(***************************************************************************)
(* C5, amended: an identity exists for a handle exactly from the first     *)
(* named discovery of a handle whose text parses as a UUID; its stable id  *)
(* is that UUID and never changes, while its name is replaced by every     *)
(* later named discovery.                                                  *)
(***************************************************************************)
C5_StableIdImmutable ==
    /\ [](\A h \in PeripheralIds :
             /\ IsSome(device_names[h])
                   <=> (Parses(h) /\ NamedBefore(h, Len(consumed) + 1) # {})
             /\ IsSome(device_names[h]) =>
                   device_names[h].val.peripheral_id
                      = try_parse_ascii(PeripheralId_to_string(h)).val)
    /\ [][\A h \in PeripheralIds : IsSome(device_names[h]) =>
             /\ IsSome(device_names'[h])
             /\ device_names'[h].val.peripheral_id = device_names[h].val.peripheral_id]_vars

\* the identity of a handle no longer carries the name it was created with
C5_Witness ==
    \E h \in PeripheralIds :
        /\ IsSome(device_names[h])
        /\ device_names[h].val.device_name
              # consumed[Min(NamedBefore(h, Len(consumed) + 1))].lookup.local_name.val

(***************************************************************************)
(* Reading the output of device_reading_stream.                            *)
(***************************************************************************)
\* device_reading_stream is done with the item at position i of emitted
Processed(i) ==
    \/ i < Len(emitted)
    \/ i = Len(emitted) /\ ~IsSome(slot) /\ drs_pc \in {"await_event", "ended"}

\* the readings yielded for the item at position i of emitted, in order
ReadingsOf(i) == SelectSeq(readings, LAMBDA r : r.event = i)

\* their measurements
MeasOf(i) == [k \in 1..Len(ReadingsOf(i)) |-> ReadingsOf(i)[k].reading.measurement]

\* what the matching decoder can return for a DeviceEvent
Decodes(ev) ==
    IF ev.type = "ServiceDataAdvertisement"
    THEN {measurements_from_service_data(ev.data)}
    ELSE {measurements_from_manufacturer_data(ev.data, o) : o \in IterOrders(ev.data)}

\* the payload of a DeviceEvent is one that the decoder library rejects
FailsToDecode(ev) ==
    IF ev.type = "ServiceDataAdvertisement"
    THEN ~IsSome(Reading_decode(ev.data))
    ELSE \A id \in DOMAIN ev.data : ~from_manufacturer_specific_data(id, ev.data[id]).ok

(***************************************************************************)
(* C6: a DeviceEvent whose payload fails to decode yields no reading and   *)
(* does not end device_reading_stream, which ends only with bt_stream; the *)
(* next DeviceEvent yields every reading its decoder returns, each with    *)
(* that event's identity.                                                  *)
(***************************************************************************)
C6_FailureIsolation ==
    /\ \A n \in DOMAIN emitted :
          (emitted[n].item.ok /\ Processed(n) /\ FailsToDecode(emitted[n].item.val)) =>
             ReadingsOf(n) = <<>>
    /\ \A n \in DOMAIN emitted :
          (/\ n + 1 \in DOMAIN emitted
           /\ emitted[n].item.ok
           /\ FailsToDecode(emitted[n].item.val)
           /\ emitted[n + 1].item.ok
           /\ Processed(n + 1)) =>
             /\ MeasOf(n + 1) \in Decodes(emitted[n + 1].item.val)
             /\ \A k \in DOMAIN ReadingsOf(n + 1) :
                   ReadingsOf(n + 1)[k].reading.device_id
                      = emitted[n + 1].item.val.device_id
    /\ drs_pc = "ended" => bt_pc = "ended"

\* readings were yielded for the event after one that failed to decode
C6_Witness ==
    \E n \in DOMAIN emitted :
        /\ n + 1 \in DOMAIN emitted
        /\ emitted[n].item.ok
        /\ FailsToDecode(emitted[n].item.val)
        /\ emitted[n + 1].item.ok
        /\ Processed(n + 1)
        /\ ReadingsOf(n + 1) # <<>>

(***************************************************************************)
(* C7: in the result of measurements_from_manufacturer_data every vendor   *)
(* id that parses contributes one measurement per field it holds, whatever *)
(* the other entries of the map are, and a vendor id that does not parse   *)
(* contributes none.                                                       *)
(***************************************************************************)
FieldCount(id, data) ==
    LET p == from_manufacturer_specific_data(id, data)
    IN  IF p.ok
        THEN (IF IsSome(p.val.humidity) THEN 1 ELSE 0)
             + (IF IsSome(p.val.temperature) THEN 1 ELSE 0)
             + (IF IsSome(p.val.battery) THEN 1 ELSE 0)
        ELSE 0

RECURSIVE TotalFieldCount(_, _)
TotalFieldCount(map, ids) ==
    IF ids = {} THEN 0
    ELSE LET id == CHOOSE x \in ids : TRUE
         IN  FieldCount(id, map[id]) + TotalFieldCount(map, ids \ {id})

C7_VendorsIndependent ==
    (IsSome(cur) /\ cur.val.type = "ManufacturerDataAdvertisement") =>
       /\ \A id \in DOMAIN cur.val.data :
             LET p == from_manufacturer_specific_data(id, cur.val.data[id])
             IN  p.ok =>
                   /\ IsSome(p.val.humidity) =>
                         Humidity(DivF64(p.val.humidity.val, 10000)) \in Range(measurements)
                   /\ IsSome(p.val.temperature) =>
                         Temperature(DivF64(p.val.temperature.val, 1000)) \in Range(measurements)
                   /\ IsSome(p.val.battery) =>
                         Voltage(DivF64(p.val.battery.val, 1000)) \in Range(measurements)
       /\ Len(measurements) = TotalFieldCount(cur.val.data, DOMAIN cur.val.data)

\* a map with an entry that parses and one that does not was decoded
C7_Witness ==
    /\ IsSome(cur)
    /\ cur.val.type = "ManufacturerDataAdvertisement"
    /\ \E a, b \in DOMAIN cur.val.data :
          /\ from_manufacturer_specific_data(a, cur.val.data[a]).ok
          /\ ~from_manufacturer_specific_data(b, cur.val.data[b]).ok
    /\ measurements # <<>>

(***************************************************************************)
(* C8: an error of bt_stream (a failed setup step, a failed peripheral or  *)
(* properties lookup) is the last item bt_stream yields: the stream has    *)
(* ended, no raw event is taken after it, and no DeviceEvent and no        *)
(* reading follows it.                                                     *)
(***************************************************************************)
C8_ErrorIsTerminal ==
    /\ [](\A i \in DOMAIN emitted : ~emitted[i].item.ok =>
             /\ i = Len(emitted)
             /\ bt_pc = "ended"
             /\ emitted[i].raw = Len(consumed))
    /\ []((Len(consumed) > 0 /\ IsFailedDiscovery(Last(consumed))) =>
             /\ Len(emitted) > 0
             /\ ~Last(emitted).item.ok
             /\ Last(emitted).raw = Len(consumed))
    /\ [][(Len(emitted) > 0 /\ ~Last(emitted).item.ok) =>
             UNCHANGED <<consumed, emitted, readings, inflight>>]_vars

\* a failed lookup ended a run that had yielded readings
C8_Witness ==
    /\ Len(consumed) > 0
    /\ IsFailedDiscovery(Last(consumed))
    /\ ~Last(emitted).item.ok
    /\ readings # <<>>
    /\ pub_pc = "ended"

C10_FixtureDecodes ==
    (/\ IsSome(cur)
     /\ cur.val.type = "ServiceDataAdvertisement"
     /\ cur.val.data = (BTHOME_V2_UUID :> FixtureBytes)) =>
       /\ Len(measurements) = 3
       /\ Range(measurements) = {Humidity(39 * ValueScale),
                                 Temperature((1916 * ValueScale) \div 100),
                                 Battery(100 * ValueScale)}

\* the three readings of the fixture were yielded
C10_Witness ==
    /\ IsSome(cur)
    /\ cur.val.type = "ServiceDataAdvertisement"
    /\ cur.val.data = (BTHOME_V2_UUID :> FixtureBytes)
    /\ drs_pc = "await_event"
    /\ Len(ReadingsOf(Len(emitted))) = 3

(***************************************************************************)
(* C11: for every vendor entry that the fixed-layout decoder parses, the   *)
(* readings of a manufacturer-data event hold one measurement per field    *)
(* that is present: Humidity is the parts-per-million value over 10000,    *)
(* Temperature the millidegrees over 1000, Voltage the millivolts over     *)
(* 1000.  390000 ppm is 39.0, 19160 millidegrees 19.16, 3300 mV 3.3.       *)
(***************************************************************************)
\* the quotient n / d at ValueScale, integer part and fraction apart
ExactQuotient(n, d) == (n \div d) * ValueScale + ((n % d) * ValueScale) \div d

\* one measurement per field that is present, converted
ExpectedOfFields(p) ==
    (IF IsSome(p.humidity)
     THEN <<[tag |-> "Humidity", value |-> ExactQuotient(p.humidity.val, 10000)]>>
     ELSE <<>>)
    \o (IF IsSome(p.temperature)
        THEN <<[tag |-> "Temperature", value |-> ExactQuotient(p.temperature.val, 1000)]>>
        ELSE <<>>)
    \o (IF IsSome(p.battery)
        THEN <<[tag |-> "Voltage", value |-> ExactQuotient(p.battery.val, 1000)]>>
        ELSE <<>>)

\* the expected measurements of the entries that parse, in iteration order
RECURSIVE ExpectedOfEntries(_, _)
ExpectedOfEntries(map, order) ==
    IF order = <<>> THEN <<>>
    ELSE (IF from_manufacturer_specific_data(Head(order), map[Head(order)]).ok
          THEN ExpectedOfFields(
                   from_manufacturer_specific_data(Head(order), map[Head(order)]).val)
          ELSE <<>>)
         \o ExpectedOfEntries(map, Tail(order))

C11_FixedLayoutConversion ==
    \A i \in DOMAIN emitted :
        (/\ emitted[i].item.ok
         /\ emitted[i].item.val.type = "ManufacturerDataAdvertisement"
         /\ Processed(i)) =>
           /\ \E o \in IterOrders(emitted[i].item.val.data) :
                 MeasOf(i) = ExpectedOfEntries(emitted[i].item.val.data, o)
           /\ \A id \in DOMAIN emitted[i].item.val.data :
                 LET p == from_manufacturer_specific_data(id, emitted[i].item.val.data[id])
                 IN  (/\ p.ok
                      /\ p.val.humidity = Some(390000)
                      /\ p.val.temperature = Some(19160)
                      /\ p.val.battery = Some(3300)) =>
                        /\ Humidity(39 * ValueScale) \in Range(MeasOf(i))
                        /\ Temperature((1916 * ValueScale) \div 100) \in Range(MeasOf(i))
                        /\ Voltage((33 * ValueScale) \div 10) \in Range(MeasOf(i))

\* the readings of an entry with 390000 ppm, 19160 millidegrees and 3300 mV
\* were yielded, and those of an entry without a humidity
C11_Witness ==
    /\ \E i \in DOMAIN emitted :
          /\ emitted[i].item.ok
          /\ emitted[i].item.val.type = "ManufacturerDataAdvertisement"
          /\ Processed(i)
          /\ emitted[i].item.val.data = MD_RUUVI
          /\ Len(MeasOf(i)) = 3
    /\ \E i \in DOMAIN emitted :
          /\ emitted[i].item.ok
          /\ emitted[i].item.val.type = "ManufacturerDataAdvertisement"
          /\ Processed(i)
          /\ \E id \in DOMAIN emitted[i].item.val.data :
                LET p == from_manufacturer_specific_data(id, emitted[i].item.val.data[id])
                IN  p.ok /\ ~IsSome(p.val.humidity)
          /\ Len(MeasOf(i)) = 2

(***************************************************************************)
(* C12: every reading handed to client.publish goes to the topic           *)
(* device_reading/<kind>/<name>: kind is humidity, temperature, battery or *)
(* voltage and depends on the variant tag alone, name is the device name   *)
(* of the reading as it is, separators included; the topic is defined for  *)
(* every tag and every name.                                               *)
(***************************************************************************)
KindOfTag ==
    [Humidity |-> "humidity", Temperature |-> "temperature",
     Battery |-> "battery", Voltage |-> "voltage"]

\* the device names of the discovery samples
SampleNames ==
    {d.lookup.local_name.val : d \in {x \in DiscoverySamples : IsNamedDiscovery(
        [type |-> "DeviceDiscovered", id |-> x.id, lookup |-> x.lookup])}}

\* the topic is defined for every tag and every name of the samples
TopicTotal ==
    \A tag \in DOMAIN KindOfTag, n \in SampleNames, v \in {0, ValueScale} :
        Topic([device_id |-> [peripheral_id |-> "any", device_name |-> n],
               measurement |-> [tag |-> tag, value |-> v]])
           = "device_reading/" \o KindOfTag[tag] \o "/" \o n

C12_TopicShape ==
    /\ TopicTotal
    /\ IsSome(lastPublish) =>
          /\ \E k \in DOMAIN readings : readings[k].reading = lastPublish.val.reading
          /\ lastPublish.val.reading.measurement.tag \in DOMAIN KindOfTag
          /\ lastPublish.val.topic
                = "device_reading/"
                  \o KindOfTag[lastPublish.val.reading.measurement.tag]
                  \o "/"
                  \o lastPublish.val.reading.device_id.device_name

\* a Voltage reading of the device named shed/north was published
C12_Witness ==
    /\ IsSome(lastPublish)
    /\ lastPublish.val.outcome = "published"
    /\ lastPublish.val.reading.measurement.tag = "Voltage"
    /\ lastPublish.val.reading.device_id.device_name = "shed/north"
    /\ lastPublish.val.topic = "device_reading/voltage/shed/north"

(***************************************************************************)
(* C13: a publish that fails is logged, and it neither ends nor blocks the *)
(* publisher loop: the loop ends only with the stream of readings, and the *)
(* reading after a failed publish is handed to client.publish too.         *)
(***************************************************************************)
C13_FailedPublishLoggedLoopContinues ==
    /\ (IsSome(lastPublish) /\ lastPublish.val.outcome # "published") =>
          IsSome(lastPublish.val.printed)
    /\ pub_pc = "ended" => bt_pc = "ended"

(***************************************************************************)
(* C14: for every DeviceEvent device_reading_stream yields one reading per *)
(* measurement the decoder returned, in the decoder's order, each with the *)
(* identity of that event, and all readings of one event come before any   *)
(* reading of the next event.                                              *)
(***************************************************************************)
C14_ReadingsInDecoderOrder ==
    /\ drs_pc = "yielding" =>
          /\ emitted[Len(emitted)].item = Ok(cur.val)
          /\ MeasOf(Len(emitted)) = SubSeq(measurements, 1, next_idx - 1)
    /\ (IsSome(cur) /\ Processed(Len(emitted)) /\ emitted[Len(emitted)].item = Ok(cur.val)) =>
          MeasOf(Len(emitted)) = measurements
    /\ \A i \in DOMAIN emitted :
          /\ (emitted[i].item.ok /\ Processed(i)) =>
                MeasOf(i) \in Decodes(emitted[i].item.val)
          /\ emitted[i].item.ok =>
                \A k \in DOMAIN ReadingsOf(i) :
                    ReadingsOf(i)[k].reading.device_id = emitted[i].item.val.device_id
          /\ ~emitted[i].item.ok => ReadingsOf(i) = <<>>
    /\ \A k, l \in DOMAIN readings :
          k < l => /\ readings[k].event <= readings[l].event
                   /\ emitted[readings[k].event].raw <= emitted[readings[l].event].raw

\* two events in a row with three and two readings, all yielded
C14_Witness ==
    \E i, j \in DOMAIN emitted :
        /\ i < j
        /\ Processed(j)
        /\ Len(ReadingsOf(i)) = 3
        /\ Len(ReadingsOf(j)) = 2
        /\ ReadingsOf(i)[1].reading.measurement.tag # ReadingsOf(i)[3].reading.measurement.tag

(***************************************************************************)
(* C15: the cache changes only in a step that takes a DeviceDiscovered     *)
(* with a name; an advertisement, resolved or dropped, an event of another *)
(* type and every step of the projector and the publisher leave it as it   *)
(* is.  A discovery or an event of another type yields no DeviceEvent.     *)
(***************************************************************************)
C15_OnlyNamedDiscoveryWrites ==
    [][/\ device_names' # device_names =>
             (Consumes /\ IsNamedDiscovery(Last(consumed')))
       /\ emitted' # emitted => Emits
       /\ (Emits /\ Last(emitted').item.ok) =>
             (Consumes /\ IsAdvert(Last(consumed')))]_vars

\* with an entry in the cache, an advertisement was resolved, one of an
\* unknown handle was dropped or a disconnect was taken, in some order
C15_Witness ==
    /\ Len(consumed) = 3
    /\ \E h \in PeripheralIds : IsSome(device_names[h])
    /\ \E j \in 2..3 : IsAdvert(consumed[j]) /\ EmittedFor(j) # {}
    /\ \/ consumed[3].type = "DeviceDisconnected"
       \/ IsAdvert(consumed[3]) /\ EmittedFor(3) = {}

(***************************************************************************)
(* C16: the readings of a BTHome v2 envelope follow its elements in their  *)
(* order: an element named humidity, temperature or battery gives the      *)
(* measurement of that tag, an element of another name gives nothing and   *)
(* changes nothing for the others, and an element of a known name whose    *)
(* value has not the expected numeric type gives a measurement of value 0. *)
(***************************************************************************)
TagOfName == [humidity |-> "Humidity", temperature |-> "Temperature", battery |-> "Battery"]

\* the element has a known name and its value is not of the type asked for
Mistyped(e) ==
    IF e.name = "battery" THEN ~IsSome(value_int(e)) ELSE ~IsSome(value_float(e))

\* the value of an element that has the type asked for
TypedValue(e) ==
    IF e.name = "battery" THEN value_int(e).val * ValueScale ELSE value_float(e).val

C16_ElementsMappedByName ==
    \A i \in DOMAIN emitted :
        (/\ emitted[i].item.ok
         /\ emitted[i].item.val.type = "ServiceDataAdvertisement"
         /\ Processed(i)
         /\ IsSome(Reading_decode(emitted[i].item.val.data))
         /\ Reading_decode(emitted[i].item.val.data).val.variant = "BtHomeV2") =>
           LET es    == Reading_decode(emitted[i].item.val.data).val.elements
               known == {x \in DOMAIN es : es[x].name \in DOMAIN TagOfName}
               ms    == MeasOf(i)
           IN  /\ Len(ms) = Cardinality(known)
               /\ \E f \in [DOMAIN ms -> known] :
                     /\ \A k, l \in DOMAIN ms : k < l => f[k] < f[l]
                     /\ \A k \in DOMAIN ms :
                           /\ ms[k].tag = TagOfName[es[f[k]].name]
                           /\ ms[k].value = IF Mistyped(es[f[k]]) THEN 0
                                            ELSE TypedValue(es[f[k]])

\* the envelope with power, the binary sensor battery, a temperature and a
\* voltage gave Battery 0 and Temperature 19.16
C16_Witness ==
    \E i \in DOMAIN emitted :
        /\ emitted[i].item.ok
        /\ emitted[i].item.val.type = "ServiceDataAdvertisement"
        /\ emitted[i].item.val.data = SD_TYPED
        /\ Processed(i)
        /\ Len(Reading_decode(SD_TYPED).val.elements) = 4
        /\ MeasOf(i) = <<Battery(0), Temperature((1916 * ValueScale) \div 100)>>

(***************************************************************************)
(* C17: service data that Reading::decode rejects, or decodes as the Atc   *)
(* or the BtHomeV1 variant, gives the empty sequence and no error: the     *)
(* event yields no reading and no Err item, device_reading_stream goes on  *)
(* and ends only with bt_stream, and the event after it is projected.      *)
(***************************************************************************)
\* the service data is rejected or is of a variant main.rs does not read
NotBtHomeV2(service_data) ==
    \/ ~IsSome(Reading_decode(service_data))
    \/ Reading_decode(service_data).val.variant \in {"Atc", "BtHomeV1"}

\* the decoder returns the empty sequence for every such sample
UnreadSamplesEmpty ==
    \A sd \in ServiceDataSamples :
        NotBtHomeV2(sd) => measurements_from_service_data(sd) = <<>>

C17_UnreadServiceDataYieldsNothing ==
    /\ UnreadSamplesEmpty
    /\ \A n \in DOMAIN emitted :
          (/\ emitted[n].item.ok
           /\ emitted[n].item.val.type = "ServiceDataAdvertisement"
           /\ NotBtHomeV2(emitted[n].item.val.data)) =>
             /\ ReadingsOf(n) = <<>>
             /\ \A m \in DOMAIN emitted : emitted[m].raw = emitted[n].raw => m = n
             /\ (n = Len(emitted) /\ ~IsSome(slot)) =>
                   (cur = Some(emitted[n].item.val) /\ measurements = <<>>
                    /\ drs_pc \in {"await_event", "ended"})
             /\ (n < Len(emitted) /\ emitted[n + 1].item.ok /\ Processed(n + 1)) =>
                   Len(ReadingsOf(n + 1))
                      \in {Len(ms) : ms \in Decodes(emitted[n + 1].item.val)}
    /\ (drs_pc = "ended" \/ pub_pc = "ended") => bt_pc = "ended"

\* an advertisement of the Atc or the BtHomeV1 variant was projected to
\* nothing and the event after it gave readings
C17_Witness ==
    /\ Len(emitted) = 2
    /\ emitted[1].item.ok /\ emitted[2].item.ok
    /\ emitted[1].item.val.type = "ServiceDataAdvertisement"
    /\ IsSome(Reading_decode(emitted[1].item.val.data))
    /\ Reading_decode(emitted[1].item.val.data).val.variant \in {"Atc", "BtHomeV1"}
    /\ ReadingsOf(1) = <<>>
    /\ Processed(2)
    /\ ReadingsOf(2) # <<>>

(***************************************************************************)
(* C18: a reading of a manufacturer-data event is tagged Humidity,         *)
(* Temperature or Voltage and never Battery; a reading of a service-data   *)
(* event is tagged Humidity, Temperature or Battery and never Voltage.     *)
(***************************************************************************)
C18_BatteryAndVoltageApart ==
    \A k \in DOMAIN readings :
        LET ev == emitted[readings[k].event].item.val
        IN  /\ emitted[readings[k].event].item.ok
            /\ ev.type = "ManufacturerDataAdvertisement" =>
                  readings[k].reading.measurement.tag \in {"Humidity", "Temperature", "Voltage"}
            /\ ev.type = "ServiceDataAdvertisement" =>
                  readings[k].reading.measurement.tag \in {"Humidity", "Temperature", "Battery"}

\* an envelope that holds a voltage element gave a Battery reading and no
\* Voltage, and a vendor entry with a battery potential gave a Voltage
C18_Witness ==
    \E i, j \in DOMAIN emitted :
        /\ emitted[i].item.ok /\ emitted[j].item.ok
        /\ emitted[i].item.val.type = "ServiceDataAdvertisement"
        /\ IsSome(Reading_decode(emitted[i].item.val.data))
        /\ \E x \in DOMAIN Reading_decode(emitted[i].item.val.data).val.elements :
              Reading_decode(emitted[i].item.val.data).val.elements[x].name = "voltage"
        /\ emitted[j].item.val.type = "ManufacturerDataAdvertisement"
        /\ Processed(i) /\ Processed(j)
        /\ \E k \in DOMAIN ReadingsOf(i) : ReadingsOf(i)[k].reading.measurement.tag = "Battery"
        /\ \E k \in DOMAIN ReadingsOf(j) : ReadingsOf(j)[k].reading.measurement.tag = "Voltage"

(***************************************************************************)
(* C19: the identity in a DeviceEvent and in its readings is a copy of the *)
(* cache entry taken when the advertisement was processed: it carries the  *)
(* name the handle had then, and a later discovery that overwrites the     *)
(* entry changes no event and no reading already yielded, nor the reading  *)
(* last handed to the publisher.                                           *)
(***************************************************************************)
C19_IdentityIsACopy ==
    /\ [](\A i \in DOMAIN emitted : emitted[i].item.ok =>
             emitted[i].item.val.device_id.device_name
                = LastNameBefore(consumed[emitted[i].raw].id, emitted[i].raw))
    /\ [](\A k \in DOMAIN readings :
             readings[k].reading.device_id = emitted[readings[k].event].item.val.device_id)
    /\ [][(Consumes /\ IsNamedDiscovery(Last(consumed'))) =>
             /\ emitted' = emitted
             /\ readings' = readings
             /\ cur' = cur
             /\ inflight' = inflight
             /\ lastPublish' = lastPublish]_vars
    /\ [][/\ SubSeq(emitted', 1, Len(emitted)) = emitted
          /\ SubSeq(readings', 1, Len(readings)) = readings]_vars

\* a reading carries the name its handle had before it was renamed
C19_Witness ==
    \E k \in DOMAIN readings :
        LET h == consumed[emitted[readings[k].event].raw].id
        IN  /\ IsSome(device_names[h])
            /\ device_names[h].val.device_name # readings[k].reading.device_id.device_name
            /\ IsSome(lastPublish)
            /\ lastPublish.val.reading.device_id.device_name
                  # device_names[h].val.device_name

(***************************************************************************)
(* C20: the pipeline is pull-driven and buffers nothing: bt_stream takes a *)
(* raw event only when the publisher has finished the publish step of      *)
(* every reading of the raw events before it, so the readings of at most   *)
(* one raw event are in flight at any time.                                *)
(***************************************************************************)
C20_OneEventInFlight ==
    /\ [][Consumes =>
             /\ pub_pc = "await_reading"
             /\ drs_pc = "await_event"
             /\ ~IsSome(slot)
             /\ ~IsSome(inflight)
             /\ \A i \in DOMAIN emitted : Processed(i)
             /\ readings # <<>> =>
                   /\ IsSome(lastPublish)
                   /\ lastPublish.val.reading = Last(readings).reading]_vars
    /\ [](IsSome(inflight) =>
             /\ ~IsSome(slot)
             /\ inflight.val = Last(readings).reading
             /\ Last(readings).event = Len(emitted)
             /\ emitted[Len(emitted)].raw = Len(consumed))
    /\ [](IsSome(slot) =>
             /\ slot.val = Last(emitted).item
             /\ Last(emitted).raw = Len(consumed)
             /\ drs_pc = "await_event"
             /\ pub_pc = "await_reading")
    /\ [](drs_pc = "yielding" => emitted[Len(emitted)].raw = Len(consumed))

\* a raw event was taken after the three readings of the event before it
\* were published
C20_Witness ==
    \E i \in DOMAIN emitted :
        /\ emitted[i].raw < Len(consumed)
        /\ Len(ReadingsOf(i)) = 3
        /\ readings[Len(readings)].event = i
        /\ IsSome(lastPublish)
        /\ lastPublish.val.reading = ReadingsOf(i)[3].reading
        /\ ~IsSome(inflight)

=============================================================================
